---- MODULE Spec2Model ----
(***************************************************************************)
(* A model of bedrock-unz: the logger tap registry of src/hackdb.h         *)
(* (block_logger_map, logger_entry, found_block_with_compressor), the      *)
(* compression histogram (block_compression_type_counter), the buffered    *)
(* writer (db_buffered_write) with clone_db / clear_db, and the commands   *)
(* of src/main.cpp that compose them.                                      *)
(*                                                                         *)
(* The module holds several specifications over one set of variables:      *)
(*   SpecReg   threads attaching, detaching and dispatching on the         *)
(*             registry under its std::shared_mutex                        *)
(*   SpecRegFair  the same under a scheduler that is fair to each thread   *)
(*   SpecBuf   one db_buffered_write driven by any caller                  *)
(*   SpecHist  one histogram: dispatches from engine threads and drains    *)
(*   SpecCmd   one run of a command: copy, list-algos, compact, clear,     *)
(*             dump, with the engine's open, read and write failures       *)
(*   SpecCodec make_compressors over any compressor registry               *)
(* Each specification leaves the variables of the other parts unchanged.   *)
(***************************************************************************)
EXTENDS Integers, Sequences, FiniteSets, TLC

\* ------------------------------------------------------------------ bounds

\* threads that attach, detach and dispatch concurrently
NThreads == 2
\* logger_entry objects (addresses) that can exist
NHandles == 2
\* compression ids are 0..MaxId (compression_id_t is 0..255 in the source)
MaxId == 4
\* keys a database can hold are 1..MaxKeys
MaxKeys == 2
\* values are 1..MaxVal; the value v is v bytes long
MaxVal == 2
\* the flush thresholds tried: MaxThresh + 1 of them
MaxThresh == 2
\* dispatches made to the histogram in SpecHist
MaxDispatch == 3
\* calls made on one db_buffered_write in SpecBuf
MaxCalls == 4
\* descriptors a compressor registry holds at most
MaxCodecs == 3

Threads == 1..NThreads
Handles == 1..NHandles
\* the ldb::Logger addresses in use (info_log of two open databases)
Loggers == {1, 2}
\* the ids the registry's threads dispatch: the registry passes id through
DispIds == {0, MaxId}
CIds == 0..MaxId

\* --------------------------------------------------------------- variables

VARIABLES
    \* hackdb.h: block_logger_entries
    map,        \* block_logger_map.map: Logger* -> set of logger_entry*
    mutex,      \* block_logger_map.mutex: [writer, readers]
    \* hackdb.h: the logger_entry objects, by address
    hstate,     \* "free" | "constructing" | "live" | "destroying"
    hlogger,    \* logger_entry::logger of an object whose members exist
    \* the threads of SpecReg
    pc,         \* where each thread is
    op,         \* the arguments of the call a thread is in
    todo,       \* found_block_with_compressor: elements the loop has yet to visit
    calls,      \* per dispatch in progress: handle -> ids its func was called with
    uaf,        \* a func was invoked on an object whose members are destroyed
    \* main.cpp: db_buffered_write and the databases it reads and writes
    bw,         \* the db_buffered_write object: [buffer, last_status, max_size]
    dbs,        \* contents of the databases: [in, out], each key -> value
    wlog,       \* history of the db.Write calls made through bw
    aborted,    \* an assert failed and the process was aborted
    ndebug,     \* the build defines NDEBUG (assert compiles to nothing)
    call,       \* the last db_buffered_write call made and what it returned
    \* main.cpp: block_compression_type_counter / missing_compressor_counter
    counts,         \* the counters, by compression id
    compressor_ids, \* missing_compressor_counter::compressor_ids
    drain,          \* the get_counts call in progress: [i, counts_set, mode]
    hret,           \* what the last get_counts / get_missing returned
    hg,             \* history of the dispatches and drains of the histogram
    \* main.cpp: one run of a command
    cmd,        \* the command and its flag: [name, flag]
    cpc,        \* where the command is
    blocks,     \* input database: key -> compression id of the record's block
    opened,     \* the databases that are open
    iter,       \* the ldb::Iterator of the loop in progress
    xstatus,    \* the ldb::Status clone_db / clear_db returned
    result,     \* the command's exit code
    compacted,  \* the databases CompactRange was called on
    ostatus,    \* the ldb::Status of the last open_db
    found,      \* find_compression_algo's optional: [returned, has_value]
    cg,         \* history of the run: [dbs0, ops, swept, read_error, ...]
    \* main.cpp: the compressor registry
    registry,   \* get_compressors(): [descriptors, default]
    made        \* the last make_compressors call: [called, only_default, codecs]

regVars == <<map, mutex, hstate, hlogger, pc, op, todo, calls, uaf>>
bwVars == <<bw, dbs, wlog, aborted, ndebug, call>>

histVars == <<counts, compressor_ids, drain, hret, hg>>

cmdVars ==
    <<cmd, cpc, blocks, opened, iter, xstatus, result, compacted, ostatus, found, cg>>

codecVars == <<registry, made>>

vars == <<regVars, bwVars, histVars, cmdVars, codecVars>>

\* what the actions of one part leave alone
notReg == <<bwVars, histVars, cmdVars, codecVars>>
notBw == <<regVars, histVars, cmdVars, codecVars>>
notHist == <<regVars, bwVars, cmdVars, codecVars>>
notCmd == codecVars

\* ------------------------------------------------- hackdb.h: the registry

NoThread == 0
NoOp == [h |-> 0, l |-> 0, id |-> 0]
NoCalls == [h \in Handles |-> <<>>]

\* a unique_lock that does not wait for the shared owners to leave
can_lock_ignoring_readers == mutex.writer = NoThread

\* std::unique_lock lock(block_logger_map.mutex): exclusive ownership
can_lock == mutex.writer = NoThread /\ mutex.readers = {}

\* a shared_lock that does not wait for the exclusive owner to leave
can_lock_shared_ignoring_writer == TRUE

\* std::shared_lock lock(block_logger_map.mutex): shared ownership
can_lock_shared == mutex.writer = NoThread

\* block_logger_map.map[logger].insert(this): operator[] creates the key
map_insert(m, l, h) ==
    [k \in DOMAIN m \cup {l} |->
        IF k = l THEN (IF l \in DOMAIN m THEN m[l] ELSE {}) \cup {h}
        ELSE m[k]]

\* a destructor that leaves its registration behind
map_erase_skipped(m, l, h) == m

\* a destructor that empties its logger's set: map[logger].clear()
map_erase_all(m, l, h) ==
    [k \in DOMAIN m \cup {l} |-> IF k = l THEN {} ELSE m[k]]

\* block_logger_map.map[logger].erase(this): the key stays, possibly empty
map_erase(m, l, h) ==
    [k \in DOMAIN m \cup {l} |->
        IF k = l THEN (IF l \in DOMAIN m THEN m[l] ELSE {}) \ {h}
        ELSE m[k]]

\* a dispatch without the count() test
count_skipped(m, l) == 1

\* block_logger_map.map.count(logger)
count(m, l) == IF l \in DOMAIN m THEN 1 ELSE 0

\* the map after block_logger_map.map[logger] was evaluated: operator[]
\* creates the key, with an empty set, when it is absent
map_index(m, l) ==
    [k \in DOMAIN m \cup {l} |-> IF k \in DOMAIN m THEN m[k] ELSE {}]

\* the range found_block_with_compressor iterates: nothing when
\* map.count(logger) is 0, else map[logger]
callbacks(m, l) == IF count(m, l) = 0 THEN {} ELSE map_index(m, l)[l]

\* logger_entry(logger, func): the member initialisers run, then the body
\* waits for the exclusive lock
ctor_begin(t, h, l) ==
    /\ pc[t] = "idle"
    /\ hstate[h] = "free"
    /\ hstate' = [hstate EXCEPT ![h] = "constructing"]
    /\ hlogger' = [hlogger EXCEPT ![h] = l]
    /\ op' = [op EXCEPT ![t] = [h |-> h, l |-> l, id |-> 0]]
    /\ pc' = [pc EXCEPT ![t] = "ctor_lock"]
    /\ UNCHANGED <<map, mutex, todo, calls, uaf>>
    /\ UNCHANGED notReg

ctor_lock(t) ==
    /\ pc[t] = "ctor_lock"
    /\ can_lock
    /\ mutex' = [mutex EXCEPT !.writer = t]
    /\ pc' = [pc EXCEPT ![t] = "ctor_cs"]
    /\ UNCHANGED <<map, hstate, hlogger, op, todo, calls, uaf>>
    /\ UNCHANGED notReg

\* the constructor body inserts this, the lock is released, the object is live
ctor_insert(t) ==
    /\ pc[t] = "ctor_cs"
    /\ map' = map_insert(map, op[t].l, op[t].h)
    /\ mutex' = [mutex EXCEPT !.writer = NoThread]
    /\ hstate' = [hstate EXCEPT ![op[t].h] = "live"]
    /\ op' = [op EXCEPT ![t] = NoOp]
    /\ pc' = [pc EXCEPT ![t] = "idle"]
    /\ UNCHANGED <<hlogger, todo, calls, uaf>>
    /\ UNCHANGED notReg

\* ~logger_entry(): the body waits for the exclusive lock
dtor_begin(t, h) ==
    /\ pc[t] = "idle"
    /\ hstate[h] = "live"
    /\ hstate' = [hstate EXCEPT ![h] = "destroying"]
    /\ op' = [op EXCEPT ![t] = [h |-> h, l |-> hlogger[h], id |-> 0]]
    /\ pc' = [pc EXCEPT ![t] = "dtor_lock"]
    /\ UNCHANGED <<map, mutex, hlogger, todo, calls, uaf>>
    /\ UNCHANGED notReg

dtor_lock(t) ==
    /\ pc[t] = "dtor_lock"
    /\ can_lock
    /\ mutex' = [mutex EXCEPT !.writer = t]
    /\ pc' = [pc EXCEPT ![t] = "dtor_cs"]
    /\ UNCHANGED <<map, hstate, hlogger, op, todo, calls, uaf>>
    /\ UNCHANGED notReg

\* a destructor that returns with the exclusive lock still held
dtor_erase_keeping_lock(t) ==
    /\ pc[t] = "dtor_cs"
    /\ map' = map_erase(map, op[t].l, op[t].h)
    /\ hstate' = [hstate EXCEPT ![op[t].h] = "free"]
    /\ hlogger' = [hlogger EXCEPT ![op[t].h] = 0]
    /\ op' = [op EXCEPT ![t] = NoOp]
    /\ pc' = [pc EXCEPT ![t] = "idle"]
    /\ UNCHANGED <<mutex, todo, calls, uaf>>
    /\ UNCHANGED notReg

\* the destructor body erases this, the lock is released, then the members
\* (func, logger) are destroyed and the storage is free for reuse
dtor_erase(t) ==
    /\ pc[t] = "dtor_cs"
    /\ map' = map_erase(map, op[t].l, op[t].h)
    /\ mutex' = [mutex EXCEPT !.writer = NoThread]
    /\ hstate' = [hstate EXCEPT ![op[t].h] = "free"]
    /\ hlogger' = [hlogger EXCEPT ![op[t].h] = 0]
    /\ op' = [op EXCEPT ![t] = NoOp]
    /\ pc' = [pc EXCEPT ![t] = "idle"]
    /\ UNCHANGED <<todo, calls, uaf>>
    /\ UNCHANGED notReg

\* found_block_with_compressor(id, dbOptions), dbOptions.info_log = l
disp_begin(t, id, l) ==
    /\ pc[t] = "idle"
    /\ op' = [op EXCEPT ![t] = [h |-> 0, l |-> l, id |-> id]]
    /\ pc' = [pc EXCEPT ![t] = "disp_lock"]
    /\ UNCHANGED <<map, mutex, hstate, hlogger, todo, calls, uaf>>
    /\ UNCHANGED notReg

disp_lock(t) ==
    /\ pc[t] = "disp_lock"
    /\ can_lock_shared
    /\ mutex' = [mutex EXCEPT !.readers = @ \cup {t}]
    /\ pc' = [pc EXCEPT ![t] = "disp_cs"]
    /\ UNCHANGED <<map, hstate, hlogger, op, todo, calls, uaf>>
    /\ UNCHANGED notReg

\* the count() test and the start of the range-for over map[logger]
disp_enter(t) ==
    /\ pc[t] = "disp_cs"
    /\ todo' = [todo EXCEPT ![t] = callbacks(map, op[t].l)]
    /\ map' = IF count(map, op[t].l) = 0 THEN map ELSE map_index(map, op[t].l)
    /\ pc' = [pc EXCEPT ![t] = "disp_loop"]
    /\ UNCHANGED <<mutex, hstate, hlogger, op, calls, uaf>>
    /\ UNCHANGED notReg

\* elem->func(id) for the next element of the range
disp_call(t) ==
    /\ pc[t] = "disp_loop"
    /\ \E elem \in todo[t] :
        /\ todo' = [todo EXCEPT ![t] = @ \ {elem}]
        /\ calls' = [calls EXCEPT ![t][elem] = Append(@, op[t].id)]
        /\ uaf' = (uaf \/ hstate[elem] = "free")
    /\ UNCHANGED <<map, mutex, hstate, hlogger, pc, op>>
    /\ UNCHANGED notReg

\* the loop is over (or count() was 0): the function is about to return
disp_end(t) ==
    /\ pc[t] = "disp_loop"
    /\ todo[t] = {}
    /\ pc' = [pc EXCEPT ![t] = "disp_unlock"]
    /\ UNCHANGED <<map, mutex, hstate, hlogger, op, todo, calls, uaf>>
    /\ UNCHANGED notReg

\* the shared_lock is released on return
disp_unlock(t) ==
    /\ pc[t] = "disp_unlock"
    /\ mutex' = [mutex EXCEPT !.readers = @ \ {t}]
    /\ calls' = [calls EXCEPT ![t] = NoCalls]
    /\ op' = [op EXCEPT ![t] = NoOp]
    /\ pc' = [pc EXCEPT ![t] = "idle"]
    /\ UNCHANGED <<map, hstate, hlogger, todo, uaf>>
    /\ UNCHANGED notReg

InitReg ==
    /\ map = <<>>
    /\ mutex = [writer |-> NoThread, readers |-> {}]
    /\ hstate = [h \in Handles |-> "free"]
    /\ hlogger = [h \in Handles |-> 0]
    /\ pc = [t \in Threads |-> "idle"]
    /\ op = [t \in Threads |-> NoOp]
    /\ todo = [t \in Threads |-> {}]
    /\ calls = [t \in Threads |-> NoCalls]
    /\ uaf = FALSE

\* the variables of the other parts, at rest
IdleBw ==
    /\ bw = [buffer |-> <<>>, last_status |-> 0, max_size |-> 0]
    /\ dbs = [in |-> <<>>, out |-> <<>>]
    /\ wlog = [nwrites |-> 0, first_fail |-> 0, late_write |-> FALSE,
               ndurable |-> 0]
    /\ aborted = FALSE
    /\ ndebug = FALSE
    /\ call = [name |-> "none", ret |-> TRUE, status |-> 0, failed_before |-> FALSE,
              n |-> 0, writes |-> 0, reached |-> FALSE]

IdleHist ==
    /\ counts = [i \in CIds |-> 0]
    /\ compressor_ids = {}
    /\ drain = [i |-> 0 - 1, counts_set |-> <<>>, mode |-> "none"]
    /\ hret = <<>>
    /\ hg = [pending |-> [i \in CIds |-> 0], last_pending |-> [i \in CIds |-> 0],
             d_during |-> FALSE, d_after |-> FALSE, has_prev |-> FALSE,
             clean_begin |-> FALSE, second_quiet |-> FALSE, ndisp |-> 0]

IdleCmd ==
    /\ cmd = [name |-> "none", flag |-> FALSE]
    /\ cpc = "done"
    /\ blocks = <<>>
    /\ opened = {}
    /\ iter = [snap |-> <<>>, keys |-> <<>>, pos |-> 0, status |-> 0]
    /\ xstatus = 0
    /\ result = 0 - 1
    /\ compacted = {}
    /\ ostatus = 0
    /\ found = [returned |-> FALSE, has_value |-> FALSE]
    /\ cg = [dbs0 |-> [in |-> <<>>, out |-> <<>>], ops |-> <<>>, swept |-> {},
             read_error |-> FALSE, seeks |-> 0, open_failed |-> {},
             ever_opened |-> {}]

IdleCodec ==
    /\ registry = [descriptors |-> <<>>, default |-> 0]
    /\ made = [called |-> FALSE, only_default |-> FALSE, codecs |-> <<>>]

NextReg ==
    \/ \E t \in Threads, h \in Handles, l \in Loggers : ctor_begin(t, h, l)
    \/ \E t \in Threads : ctor_lock(t)
    \/ \E t \in Threads : ctor_insert(t)
    \/ \E t \in Threads, h \in Handles : dtor_begin(t, h)
    \/ \E t \in Threads : dtor_lock(t)
    \/ \E t \in Threads : dtor_erase(t)
    \/ \E t \in Threads, id \in DispIds, l \in Loggers : disp_begin(t, id, l)
    \/ \E t \in Threads : disp_lock(t)
    \/ \E t \in Threads : disp_enter(t)
    \/ \E t \in Threads : disp_call(t)
    \/ \E t \in Threads : disp_end(t)
    \/ \E t \in Threads : disp_unlock(t)

StartReg ==
    InitReg /\ IdleBw /\ IdleHist /\ IdleCmd /\ IdleCodec

SpecReg == StartReg /\ [][NextReg]_vars

\* the steps of thread t inside an operation it has started: taking the
\* lock when the mutex allows it, the body, the release
Proceed(t) ==
    \/ ctor_lock(t)
    \/ ctor_insert(t)
    \/ dtor_lock(t)
    \/ dtor_erase(t)
    \/ disp_lock(t)
    \/ disp_enter(t)
    \/ disp_call(t)
    \/ disp_end(t)
    \/ disp_unlock(t)

\* The registry under a fair scheduler: a thread whose next step stays
\* possible takes it. That is all the code has: std::shared_mutex promises no
\* order among the threads waiting for it, so a lock step that other threads
\* keep disabling carries no stronger condition. Starting an operation is
\* never forced.
SpecRegFair ==
    StartReg /\ [][NextReg]_vars /\ \A t \in Threads : WF_vars(Proceed(t))

\* ------------------------------------------- main.cpp: db_buffered_write

\* ldb::Status: OK, or the error of one call. The error of the n-th db.Write
\* call made through a db_buffered_write is WriteError(n), so that the errors
\* of different calls differ; an iterator that stops on a read error has
\* status ReadError.
OK == 0
WriteError(n) == n
ReadError == 0 - 1

Keys == 1..MaxKeys
Vals == 1..MaxVal

\* a Slice's size(): a key is one byte, the value v is v bytes long
KeyLen(k) == 1
ValLen(v) == v

\* the entries of a WriteBatch
PutOp(k, v) == [type |-> "put", key |-> k, value |-> v]
DelOp(k) == [type |-> "del", key |-> k, value |-> 0]

\* bytes of one entry in the batch's buffer: a tag byte, then each slice with
\* a one-byte length prefix
OpSize(o) ==
    IF o.type = "put" THEN 1 + (1 + KeyLen(o.key)) + (1 + ValLen(o.value))
    ELSE 1 + (1 + KeyLen(o.key))

RECURSIVE SumSizes(_)
SumSizes(b) == IF b = <<>> THEN 0 ELSE OpSize(Head(b)) + SumSizes(Tail(b))

\* WriteBatch::ApproximateSize(): the header of an empty batch plus its entries
BatchHeader == 12
ApproximateSize(b) == BatchHeader + SumSizes(b)

\* buffer_empty(batch): the size is that of an empty, cleared batch
buffer_empty(b) == ApproximateSize(b) = ApproximateSize(<<>>)

\* the flush thresholds (max_size) the model runs with; the program's is
\* 10 * one_meg, here scaled to batches of one, two or more entries
Thresholds == {BatchHeader + 1 + 6 * j : j \in 0..MaxThresh}

\* a database's contents after one entry of a batch is applied
ApplyOp(d, o) ==
    IF o.type = "put"
    THEN [k \in DOMAIN d \cup {o.key} |-> IF k = o.key THEN o.value ELSE d[k]]
    ELSE [k \in DOMAIN d \ {o.key} |-> d[k]]

\* DB::Write(wopts, &batch) that succeeds: the entries are applied in order
RECURSIVE Write(_, _)
Write(d, b) == IF b = <<>> THEN d ELSE Write(ApplyOp(d, Head(b)), Tail(b))

\* The state the db_buffered_write methods work on: the object (bw), the
\* contents of the database it references (db), the history of its Write
\* calls (wlog) and whether an assert has aborted the process.
Ctx(target) == [bw |-> bw, db |-> dbs[target], wlog |-> wlog, aborted |-> aborted]

\* the Write-call history after one more db.Write of batch b with status st
Logged(g, b, st) ==
    [nwrites |-> g.nwrites + 1,
     first_fail |-> IF g.first_fail = OK THEN st ELSE g.first_fail,
     late_write |-> g.late_write \/ g.first_fail # OK,
     ndurable |-> IF st = OK THEN g.ndurable + Len(b) ELSE g.ndurable]

\* a flush that keeps the batch after writing it
flush_without_clear(c, wok) ==
    IF c.bw.last_status # OK /\ ~ndebug THEN [c EXCEPT !.aborted = TRUE]
    ELSE LET st == IF wok THEN OK ELSE WriteError(c.wlog.nwrites + 1) IN
         [c EXCEPT !.bw.last_status = st,
                   !.db = IF wok THEN Write(c.db, c.bw.buffer) ELSE c.db,
                   !.wlog = Logged(c.wlog, c.bw.buffer, st)]

\* a flush that clears the batch only when the write succeeded
flush_keeping_failed_batch(c, wok) ==
    IF c.bw.last_status # OK /\ ~ndebug THEN [c EXCEPT !.aborted = TRUE]
    ELSE LET st == IF wok THEN OK ELSE WriteError(c.wlog.nwrites + 1) IN
         [c EXCEPT !.bw.last_status = st,
                   !.bw.buffer = IF wok THEN <<>> ELSE @,
                   !.db = IF wok THEN Write(c.db, c.bw.buffer) ELSE c.db,
                   !.wlog = Logged(c.wlog, c.bw.buffer, st)]

\* flush(): assert(last_status.ok()); last_status = db.Write(wopts, &buffer);
\* buffer.Clear(). wok says whether this Write call succeeds.
flush(c, wok) ==
    IF c.bw.last_status # OK /\ ~ndebug THEN [c EXCEPT !.aborted = TRUE]
    ELSE LET st == IF wok THEN OK ELSE WriteError(c.wlog.nwrites + 1) IN
         [c EXCEPT !.bw.last_status = st,
                   !.bw.buffer = <<>>,
                   !.db = IF wok THEN Write(c.db, c.bw.buffer) ELSE c.db,
                   !.wlog = Logged(c.wlog, c.bw.buffer, st)]

\* maybe_flush(): [c, flushed]
maybe_flush(c, wok) ==
    IF ApproximateSize(c.bw.buffer) < c.bw.max_size
    THEN [c |-> c, flushed |-> FALSE]
    ELSE [c |-> flush(c, wok), flushed |-> TRUE]

\* a Put / Delete that reports success whatever the flush did
append_result_ignoring_status(r) == [c |-> r.c, ret |-> TRUE]

\* the value Put and Delete return: maybe_flush() ? last_status.ok() : true
append_result(r) ==
    [c |-> r.c, ret |-> IF r.flushed THEN r.c.bw.last_status = OK ELSE TRUE]

\* Put(key, value)
Put(c, k, v, wok) ==
    append_result(maybe_flush([c EXCEPT !.bw.buffer = Append(@, PutOp(k, v))], wok))

\* Delete(key)
Delete(c, k, wok) ==
    append_result(maybe_flush([c EXCEPT !.bw.buffer = Append(@, DelOp(k))], wok))

\* finish(): flush(); return last_status
finish(c, wok) ==
    LET c2 == flush(c, wok) IN [c |-> c2, status |-> c2.bw.last_status]

\* the variables after a method has turned the state into c
SetCtx(target, c) ==
    /\ bw' = c.bw
    /\ dbs' = [dbs EXCEPT ![target] = c.db]
    /\ wlog' = c.wlog
    /\ aborted' = c.aborted

\* A db_buffered_write object driven by any caller (SpecBuf): Put, Delete and
\* finish in any order on one instance that writes to an empty database.
InitBuf ==
    /\ \E m \in Thresholds :
        bw = [buffer |-> <<>>, last_status |-> OK, max_size |-> m]
    /\ dbs = [in |-> <<>>, out |-> <<>>]
    /\ wlog = [nwrites |-> 0, first_fail |-> OK, late_write |-> FALSE,
               ndurable |-> 0]
    /\ aborted = FALSE
    /\ ndebug \in BOOLEAN
    /\ call = [name |-> "none", ret |-> TRUE, status |-> OK, failed_before |-> FALSE,
              n |-> 0, writes |-> 0, reached |-> FALSE]

\* the caller may go on while the process lives, the object is not finished
\* and the model's bound on calls is not reached
BufLive == ~aborted /\ call.name # "finish" /\ call.n < MaxCalls

\* the keys and values the caller of SpecBuf passes
BufKeys == {1, MaxKeys}
BufVals == {1, MaxVal}

BufPut(k, v, wok) ==
    /\ BufLive
    /\ LET r == Put(Ctx("out"), k, v, wok) IN
        /\ SetCtx("out", r.c)
        /\ call' = [name |-> "Put", ret |-> r.ret, status |-> r.c.bw.last_status,
                    failed_before |-> wlog.first_fail # OK,
                    n |-> call.n + 1,
                    writes |-> r.c.wlog.nwrites - wlog.nwrites,
                    reached |-> ApproximateSize(Append(bw.buffer, PutOp(k, v)))
                                    >= bw.max_size]
    /\ UNCHANGED ndebug
    /\ UNCHANGED notBw

BufDelete(k, wok) ==
    /\ BufLive
    /\ LET r == Delete(Ctx("out"), k, wok) IN
        /\ SetCtx("out", r.c)
        /\ call' = [name |-> "Delete", ret |-> r.ret, status |-> r.c.bw.last_status,
                    failed_before |-> wlog.first_fail # OK,
                    n |-> call.n + 1,
                    writes |-> r.c.wlog.nwrites - wlog.nwrites,
                    reached |-> ApproximateSize(Append(bw.buffer, DelOp(k)))
                                    >= bw.max_size]
    /\ UNCHANGED ndebug
    /\ UNCHANGED notBw

BufFinish(wok) ==
    /\ BufLive
    /\ LET r == finish(Ctx("out"), wok) IN
        /\ SetCtx("out", r.c)
        /\ call' = [name |-> "finish", ret |-> r.status = OK, status |-> r.status,
                    failed_before |-> wlog.first_fail # OK,
                    n |-> call.n + 1,
                    writes |-> r.c.wlog.nwrites - wlog.nwrites,
                    reached |-> FALSE]
    /\ UNCHANGED ndebug
    /\ UNCHANGED notBw

NextBuf ==
    \/ \E k \in BufKeys, v \in BufVals, wok \in BOOLEAN : BufPut(k, v, wok)
    \/ \E k \in BufKeys, wok \in BOOLEAN : BufDelete(k, wok)
    \/ \E wok \in BOOLEAN : BufFinish(wok)

StartBuf ==
    InitBuf /\ InitReg /\ IdleHist /\ IdleCmd /\ IdleCodec

SpecBuf == StartBuf /\ [][NextBuf]_vars

\* ---------------------------- main.cpp: block_compression_type_counter

\* counts_size: one counter per compression id
counts_size == MaxId + 1

\* the histogram of the model owns the logger_entry at this address, attached
\* under this logger (opts->info_log of the command's database)
HistHandle == 1
CmdLogger == 1

ZeroCounts == [i \in CIds |-> 0]
EmptyMap == <<>>

\* the ids of the codecs get_compressors() registers (uniqueCompressionID of
\* ZlibCompressorRaw and of ZlibCompressor)
ZlibRawId == 4
ZlibId == 2

\* get_compressors(): the registered descriptors, in order; the last is the
\* "no compression" placeholder with id 0
get_compressors ==
    <<[name |-> "zlib raw", compression_id |-> ZlibRawId],
      [name |-> "zlib", compression_id |-> ZlibId],
      [name |-> "no compression", compression_id |-> 0]>>

\* make_compressors(only_default): the codecs made, by id, in order
RECURSIVE make_compressors_from(_, _)
make_compressors_from(cs, only_default) ==
    IF cs = <<>> THEN <<>>
    ELSE IF Head(cs).compression_id = 0
         THEN make_compressors_from(Tail(cs), only_default)
         ELSE IF only_default THEN <<Head(cs).compression_id>>
              ELSE <<Head(cs).compression_id>>
                   \o make_compressors_from(Tail(cs), only_default)

make_compressors(only_default) == make_compressors_from(get_compressors, only_default)

\* missing_compressor_counter(opts): the uniqueCompressionID of every codec
\* of the configuration
known_ids(compressors) == {compressors[i] : i \in DOMAIN compressors}

\* the codec lists of the configurations the program opens a database with:
\* none, all registered, the default only
Configs == {<<>>, make_compressors(FALSE), make_compressors(TRUE)}

\* a callback that loses the event
callback_dropping(c, id) == c

\* the callback the histogram installs: counts[compression_id].fetch_add(1)
callback(c, id) == [c EXCEPT ![id] = @ + 1]

\* a dispatch that reaches the histogram whatever the logger is
dispatch_any_logger(m, l, c, id) == callback(c, id)

\* found_block_with_compressor(id, options), options.info_log = l, run to
\* completion against registry m: the histogram's counters afterwards
dispatch(m, l, c, id) ==
    IF HistHandle \in callbacks(m, l) THEN callback(c, id) ELSE c

\* an iteration of get_counts that reads the counter and leaves it
load_step(c, cs, i) ==
    [counts |-> c,
     counts_set |-> IF c[i] > 0 THEN [k \in DOMAIN cs \cup {i} |->
                                        IF k = i THEN c[i] ELSE cs[k]]
                    ELSE cs]

\* one iteration of get_counts: counts[i].exchange(0), and counts_set[i] is
\* set when the value taken is positive
exchange_step(c, cs, i) ==
    [counts |-> [c EXCEPT ![i] = 0],
     counts_set |-> IF c[i] > 0 THEN [k \in DOMAIN cs \cup {i} |->
                                        IF k = i THEN c[i] ELSE cs[k]]
                    ELSE cs]

\* get_counts() with nothing running beside it: the loop runs exchange_step
\* once for every index, and iteration i reads and writes counts[i] and
\* counts_set[i] only, so the loop's result is iteration i's result at every i
get_counts(c) ==
    [counts |-> [i \in DOMAIN c |-> exchange_step(c, EmptyMap, i).counts[i]],
     counts_set |->
        [i \in {j \in DOMAIN c : j \in DOMAIN exchange_step(c, EmptyMap, j).counts_set}
            |-> exchange_step(c, EmptyMap, i).counts_set[i]]]

\* get_missing that forgets counts.erase(0)
erase_known_keeping_zero(cs, known) == [k \in DOMAIN cs \ known |-> cs[k]]

\* get_missing(), after get_counts: counts.erase(0) and counts.erase(id) for
\* every id of compressor_ids
erase_known(cs, known) == [k \in (DOMAIN cs \ {0}) \ known |-> cs[k]]

\* get_missing() with nothing running beside it
get_missing(c, known) ==
    LET d == get_counts(c) IN
    [counts |-> d.counts, missing |-> erase_known(d.counts_set, known)]

\* One live histogram, dispatches from engine threads and drains (SpecHist).
\* drain.i is the loop index of the get_counts in progress, Idle when none is.
Idle == 0 - 1

InitHist ==
    /\ counts = ZeroCounts
    /\ \E cfg \in Configs : compressor_ids = known_ids(cfg)
    /\ drain = [i |-> Idle, counts_set |-> EmptyMap, mode |-> "none"]
    /\ hret = EmptyMap
    /\ hg = [pending |-> ZeroCounts, last_pending |-> ZeroCounts,
             d_during |-> FALSE, d_after |-> FALSE, has_prev |-> FALSE,
             clean_begin |-> FALSE, second_quiet |-> FALSE, ndisp |-> 0]

\* the registry with the histogram's entry attached
AttachedHist ==
    /\ map = map_insert(<<>>, CmdLogger, HistHandle)
    /\ mutex = [writer |-> NoThread, readers |-> {}]
    /\ hstate = [h \in Handles |-> IF h = HistHandle THEN "live" ELSE "free"]
    /\ hlogger = [h \in Handles |-> IF h = HistHandle THEN CmdLogger ELSE 0]
    /\ pc = [t \in Threads |-> "idle"]
    /\ op = [t \in Threads |-> NoOp]
    /\ todo = [t \in Threads |-> {}]
    /\ calls = [t \in Threads |-> NoCalls]
    /\ uaf = FALSE

\* an engine thread reports a block: found_block_with_compressor(id, options)
hist_dispatch(id, l) ==
    /\ hg.ndisp < MaxDispatch
    /\ counts' = dispatch(map, l, counts, id)
    /\ hg' = [hg EXCEPT !.ndisp = @ + 1,
                        !.pending = IF l = CmdLogger THEN [@ EXCEPT ![id] = @ + 1]
                                    ELSE @,
                        !.d_during = @ \/ drain.i # Idle,
                        !.d_after = @ \/ drain.i = Idle]
    /\ UNCHANGED <<compressor_ids, drain, hret>>
    /\ UNCHANGED notHist

\* get_counts() is entered, directly or from get_missing()
hist_begin(mode) ==
    /\ drain.i = Idle
    /\ drain' = [i |-> 0, counts_set |-> EmptyMap, mode |-> mode]
    /\ hg' = [hg EXCEPT !.clean_begin = hg.has_prev /\ ~hg.d_during /\ ~hg.d_after,
                        !.d_during = FALSE,
                        !.d_after = FALSE,
                        !.second_quiet = FALSE]
    /\ UNCHANGED <<counts, compressor_ids, hret>>
    /\ UNCHANGED notHist

\* one iteration of the loop of get_counts
hist_step ==
    /\ drain.i # Idle
    /\ drain.i < counts_size
    /\ LET s == exchange_step(counts, drain.counts_set, drain.i) IN
        /\ counts' = s.counts
        /\ drain' = [drain EXCEPT !.i = @ + 1, !.counts_set = s.counts_set]
    /\ UNCHANGED <<compressor_ids, hret, hg>>
    /\ UNCHANGED notHist

\* get_counts() returns counts_set; get_missing() erases from it and returns
hist_return ==
    /\ drain.i = counts_size
    /\ hret' = IF drain.mode = "missing"
               THEN erase_known(drain.counts_set, compressor_ids)
               ELSE drain.counts_set
    /\ drain' = [drain EXCEPT !.i = Idle, !.counts_set = EmptyMap]
    /\ hg' = [hg EXCEPT !.has_prev = TRUE,
                        !.second_quiet = hg.clean_begin /\ ~hg.d_during,
                        !.last_pending = hg.pending,
                        !.pending = [i \in CIds |->
                            hg.pending[i] - (IF i \in DOMAIN drain.counts_set
                                             THEN drain.counts_set[i] ELSE 0)]]
    /\ UNCHANGED <<counts, compressor_ids>>
    /\ UNCHANGED notHist

NextHist ==
    \/ \E id \in CIds, l \in Loggers : hist_dispatch(id, l)
    \/ \E mode \in {"counts", "missing"} : hist_begin(mode)
    \/ hist_step
    \/ hist_return

StartHist ==
    InitHist /\ AttachedHist /\ IdleBw /\ IdleCmd /\ IdleCodec

SpecHist == StartHist /\ [][NextHist]_vars

\* ------------------------------------------------ main.cpp: the commands

NoResult == 0 - 1
Commands == {"copy", "list", "compact", "clear", "dump"}

\* the codecs of the options a command opens its input database with
config(c) ==
    IF c.name = "compact" /\ ~c.flag THEN <<>> ELSE make_compressors(FALSE)

\* block_compression_type_counter / missing_compressor_counter is a local of
\* every command but copy
has_counter(c) == c.name # "copy"

\* the keys of a database in the order an iterator visits them
RECURSIVE SortedSeq(_)
SortedSeq(S) ==
    IF S = {} THEN <<>>
    ELSE LET m == CHOOSE x \in S : \A y \in S : x <= y IN
         <<m>> \o SortedSeq(S \ {m})

\* what iterating over a database yields: its records, in key order
Iterate(d) ==
    [i \in 1..Cardinality(DOMAIN d) |->
        <<SortedSeq(DOMAIN d)[i], d[SortedSeq(DOMAIN d)[i]]>>]

\* ldb::Iterator over a snapshot of the database: the position is 0 before
\* SeekToFirst and Len(keys) + 1 past the last record
NoIter == [snap |-> <<>>, keys |-> <<>>, pos |-> 0, status |-> OK]
NewIterator(d) ==
    [snap |-> d, keys |-> SortedSeq(DOMAIN d), pos |-> 0, status |-> OK]
Valid(it) == it.status = OK /\ it.pos \in 1..Len(it.keys)
key(it) == it.keys[it.pos]
value(it) == it.snap[it.keys[it.pos]]

\* Moving onto a following record reads its block. The read succeeds, fails
\* the checksum (before the block's compression id is looked at) or fails in
\* the decoder (after found_block_with_compressor was called).
has_next(it) == it.pos < Len(it.keys)
ReadOutcomes == {"ok", "checksum", "decode"}
can_read(it, rd) == rd = "ok" \/ has_next(it)

\* Next(): onto the following record, or invalid with the read's error
Next(it, rd) ==
    IF rd = "ok" THEN [it EXCEPT !.pos = @ + 1]
    ELSE [it EXCEPT !.status = ReadError]

SeekToFirst(it, rd) == Next([it EXCEPT !.pos = 0], rd)

\* the compression ids the engine reports while the iterator makes that move
tapped(it, rd) ==
    IF has_next(it) /\ rd # "checksum" THEN {blocks[it.keys[it.pos + 1]]} ELSE {}

\* the histogram's counters after those reports
read_block(c, it, rd) ==
    IF has_next(it) /\ rd # "checksum"
    THEN dispatch(map, CmdLogger, c, blocks[it.keys[it.pos + 1]])
    ELSE c

\* the history of the run after the iterator has made a move inside loop
moved(g, it, rd, in_sweep) ==
    [g EXCEPT !.swept = IF in_sweep THEN @ \cup tapped(it, rd) ELSE @,
              !.read_error = @ \/ rd # "ok",
              !.seeks = IF it.pos = 0 THEN @ + 1 ELSE @]

\* the counter's logger_entry is constructed (attached) / destroyed; the
\* command is the only thread, so the lock is free
attach ==
    /\ map' = map_insert(map, CmdLogger, HistHandle)
    /\ hstate' = [hstate EXCEPT ![HistHandle] = "live"]
    /\ hlogger' = [hlogger EXCEPT ![HistHandle] = CmdLogger]
    /\ UNCHANGED <<mutex, pc, op, todo, calls, uaf>>

detach ==
    /\ map' = map_erase(map, CmdLogger, HistHandle)
    /\ hstate' = [hstate EXCEPT ![HistHandle] = "free"]
    /\ hlogger' = [hlogger EXCEPT ![HistHandle] = 0]
    /\ UNCHANGED <<mutex, pc, op, todo, calls, uaf>>

\* the command returns code: its locals (databases, counter) are destroyed
return(code) ==
    /\ result' = code
    /\ cpc' = "done"
    /\ opened' = {}
    /\ IF has_counter(cmd) THEN detach ELSE UNCHANGED regVars

\* the ldb::Status of a DB::Open that failed
OpenError == 0 - 2

\* an open_db that keeps the pointer DB::Open left after a failure
open_db_keeping_pointer(ok) ==
    [db |-> TRUE, status |-> IF ok THEN OK ELSE OpenError]

\* open_db(opts, name): the pair (database or nullptr, status of DB::Open);
\* ok says whether DB::Open succeeds
open_db(ok) ==
    [db |-> ok, status |-> IF ok THEN OK ELSE OpenError]

\* One run of one command (SpecCmd). The input database holds any records,
\* each in a block of some compression id; the scaled flush threshold is any
\* of Thresholds.
FreshBw(m) == [buffer |-> <<>>, last_status |-> OK, max_size |-> m]

InitCmd ==
    /\ cmd \in [name : Commands, flag : BOOLEAN]
    /\ cmd.name \in {"list", "clear", "dump"} => ~cmd.flag
    /\ cpc = "start"
    /\ \E S \in SUBSET Keys :
        /\ dbs \in [in : [S -> Vals], out : {<<>>, (1 :> MaxVal)}]
        /\ blocks \in [S -> CIds]
    /\ cmd.name = "copy" => \A k1, k2 \in DOMAIN blocks : blocks[k1] = blocks[k2]
    /\ cmd.name # "copy" => dbs.out = <<>> /\ \A k \in DOMAIN dbs.in : dbs.in[k] = 1
    /\ \E m \in Thresholds : bw = FreshBw(m)
    /\ ndebug \in BOOLEAN
    /\ cmd.name \notin {"copy", "clear"} => bw.max_size = BatchHeader + 1
    /\ cmd.name \notin {"copy", "clear", "list"} => ~ndebug
    /\ wlog = [nwrites |-> 0, first_fail |-> OK, late_write |-> FALSE,
               ndurable |-> 0]
    /\ aborted = FALSE
    /\ call = [name |-> "none", ret |-> TRUE, status |-> OK, failed_before |-> FALSE,
               n |-> 0, writes |-> 0, reached |-> FALSE]
    /\ opened = {}
    /\ iter = NoIter
    /\ xstatus = OK
    /\ result = NoResult
    /\ compacted = {}
    /\ ostatus = OK
    /\ found = [returned |-> FALSE, has_value |-> FALSE]
    /\ cg = [dbs0 |-> dbs, ops |-> <<>>, swept |-> {}, read_error |-> FALSE,
             seeks |-> 0, open_failed |-> {}, ever_opened |-> {}]

\* the command's options and, but for copy, its counter are constructed
cmd_start ==
    /\ cpc = "start"
    /\ cpc' = "open"
    /\ IF has_counter(cmd)
       THEN /\ attach
            /\ counts' = ZeroCounts
            /\ compressor_ids' = IF cmd.name = "list" THEN compressor_ids
                                 ELSE known_ids(config(cmd))
       ELSE UNCHANGED <<regVars, counts, compressor_ids>>
    /\ UNCHANGED <<drain, hret, hg, bwVars>>
    /\ UNCHANGED <<cmd, blocks, opened, iter, xstatus, result, compacted, cg>>
    /\ UNCHANGED <<ostatus, found>>
    /\ UNCHANGED notCmd

\* open_db of the input database. Opened: the command goes on. Failed:
\* find_compression_algo returns an empty optional; the other commands print
\* "Failed to open DB" and return 1
cmd_open(ok) ==
    /\ cpc = "open"
    /\ LET o == open_db(ok) IN
        /\ ostatus' = o.status
        /\ IF o.db
           THEN /\ opened' = {"in"}
                /\ cpc' = IF cmd.name = "copy" THEN "open_out"
                          ELSE IF cmd.name = "dump" THEN "dump"
                          ELSE "sweep"
                /\ cg' = [cg EXCEPT !.ever_opened = @ \cup {"in"}]
                /\ UNCHANGED <<result, regVars, found>>
           ELSE /\ cg' = [cg EXCEPT !.open_failed = @ \cup {"in"}]
                /\ IF cmd.name = "list"
                   THEN /\ cpc' = "list_check"
                        /\ found' = [returned |-> TRUE, has_value |-> FALSE]
                        /\ UNCHANGED <<result, opened, regVars>>
                   ELSE return(1) /\ UNCHANGED found
    /\ UNCHANGED <<histVars, bwVars>>
    /\ UNCHANGED <<cmd, blocks, iter, xstatus, compacted>>
    /\ UNCHANGED notCmd

\* compress_decompress: open_db of the output database
copy_open_out(ok) ==
    /\ cpc = "open_out"
    /\ LET o == open_db(ok) IN
        /\ ostatus' = o.status
        /\ IF o.db
           THEN /\ opened' = opened \cup {"out"}
                /\ cpc' = "clone"
                /\ cg' = [cg EXCEPT !.ever_opened = @ \cup {"out"}]
                /\ UNCHANGED <<result, regVars>>
           ELSE /\ cg' = [cg EXCEPT !.open_failed = @ \cup {"out"}]
                /\ return(1)
    /\ UNCHANGED <<histVars, bwVars>>
    /\ UNCHANGED <<cmd, blocks, iter, xstatus, compacted, found>>
    /\ UNCHANGED notCmd

\* sweep_db: NewIterator, SeekToFirst
sweep_seek(rd) ==
    /\ cpc = "sweep"
    /\ LET it == NewIterator(dbs.in) IN
        /\ can_read(it, rd)
        /\ iter' = SeekToFirst(it, rd)
        /\ counts' = read_block(counts, it, rd)
        /\ cg' = moved(cg, it, rd, TRUE)
    /\ cpc' = "sweep_loop"
    /\ UNCHANGED <<compressor_ids, drain, hret, hg, regVars, bwVars>>
    /\ UNCHANGED <<cmd, blocks, opened, xstatus, result, compacted>>
    /\ UNCHANGED <<ostatus, found>>
    /\ UNCHANGED notCmd

\* sweep_db: while (iter->Valid()) iter->Next()
sweep_next(rd) ==
    /\ cpc = "sweep_loop"
    /\ Valid(iter)
    /\ can_read(iter, rd)
    /\ iter' = Next(iter, rd)
    /\ counts' = read_block(counts, iter, rd)
    /\ cg' = moved(cg, iter, rd, TRUE)
    /\ UNCHANGED <<compressor_ids, drain, hret, hg, regVars, bwVars>>
    /\ UNCHANGED <<cmd, cpc, blocks, opened, xstatus, result, compacted>>
    /\ UNCHANGED <<ostatus, found>>
    /\ UNCHANGED notCmd

\* sweep_db returns the iterator and its caller drops it; list-algos closes
\* the database before it reads the counters
sweep_end ==
    /\ cpc = "sweep_loop"
    /\ ~Valid(iter)
    /\ iter' = NoIter
    /\ cpc' = IF cmd.name = "list" THEN "counts" ELSE "missing"
    /\ opened' = IF cmd.name = "list" THEN {} ELSE opened
    /\ UNCHANGED <<histVars, regVars, bwVars>>
    /\ UNCHANGED <<cmd, blocks, xstatus, result, compacted, cg>>
    /\ UNCHANGED <<ostatus, found>>
    /\ UNCHANGED notCmd

\* find_compression_algo returns {counter.get_counts()}
list_ret ==
    /\ cpc = "counts"
    /\ LET d == get_counts(counts) IN
        /\ counts' = d.counts
        /\ hret' = d.counts_set
    /\ found' = [returned |-> TRUE, has_value |-> TRUE]
    /\ cpc' = "list_check"
    /\ UNCHANGED <<compressor_ids, drain, hg, bwVars, regVars>>
    /\ UNCHANGED <<cmd, blocks, opened, iter, xstatus, result, compacted, ostatus, cg>>
    /\ UNCHANGED notCmd

\* cmd_find_compression_algos: assert(result.has_value() == status.ok());
\* 1 if the status is not ok, else the map is printed and 0
list_check ==
    /\ cpc = "list_check"
    /\ IF found.has_value # (ostatus = OK) /\ ~ndebug
       THEN /\ aborted' = TRUE
            /\ cpc' = "aborted"
            /\ UNCHANGED <<result, opened, regVars>>
       ELSE /\ IF ostatus # OK THEN return(1) ELSE return(0)
            /\ UNCHANGED aborted
    /\ UNCHANGED <<histVars, bw, dbs, wlog, ndebug, call>>
    /\ UNCHANGED <<cmd, blocks, iter, xstatus, compacted, ostatus, found, cg>>
    /\ UNCHANGED notCmd

\* cmd_compact, cmd_clear: the loop over missing.get_missing() returns 1 at
\* its first element; else compact calls CompactRange and returns 0, clear
\* goes on to clear_db
cmd_check ==
    /\ cpc = "missing"
    /\ LET d == get_missing(counts, compressor_ids) IN
        /\ counts' = d.counts
        /\ hret' = d.missing
        /\ IF d.missing # EmptyMap
           THEN return(1) /\ UNCHANGED compacted
           ELSE IF cmd.name = "compact"
                THEN return(0) /\ compacted' = compacted \cup {"in"}
                ELSE /\ cpc' = "clear"
                     /\ UNCHANGED <<result, opened, regVars, compacted>>
    /\ UNCHANGED <<compressor_ids, drain, hg, bwVars>>
    /\ UNCHANGED <<cmd, blocks, iter, xstatus, cg>>
    /\ UNCHANGED <<ostatus, found>>
    /\ UNCHANGED notCmd

\* ~db_buffered_write(): assert(buffer_empty(buffer))
destroy_bw ==
    aborted' = (aborted \/ (~buffer_empty(bw.buffer) /\ ~ndebug))

\* clone_db: the db_buffered_write is constructed, NewIterator, SeekToFirst
clone_seek(rd) ==
    /\ cpc = "clone"
    /\ bw' = FreshBw(bw.max_size)
    /\ LET it == NewIterator(dbs.in) IN
        /\ can_read(it, rd)
        /\ iter' = SeekToFirst(it, rd)
        /\ counts' = read_block(counts, it, rd)
        /\ cg' = moved(cg, it, rd, FALSE)
    /\ cpc' = "clone_loop"
    /\ UNCHANGED <<compressor_ids, drain, hret, hg, regVars>>
    /\ UNCHANGED <<dbs, wlog, aborted, ndebug, call>>
    /\ UNCHANGED <<cmd, blocks, opened, xstatus, result, compacted>>
    /\ UNCHANGED <<ostatus, found>>
    /\ UNCHANGED notCmd

\* clone_db: one iteration: Put of the record, return buffer.last_status if
\* it returned false, else Next
clone_step(wok, rd) ==
    /\ cpc = "clone_loop"
    /\ Valid(iter)
    /\ can_read(iter, rd)
    /\ LET r == Put(Ctx("out"), key(iter), value(iter), wok) IN
        /\ SetCtx("out", r.c)
        /\ IF r.c.aborted
           THEN /\ cpc' = "aborted"
                /\ UNCHANGED <<iter, xstatus, counts, cg>>
           ELSE IF ~r.ret
           THEN /\ cpc' = "clone_ret"
                /\ xstatus' = r.c.bw.last_status
                /\ iter' = NoIter
                /\ cg' = [cg EXCEPT !.ops = Append(@, PutOp(key(iter), value(iter)))]
                /\ UNCHANGED counts
           ELSE /\ iter' = Next(iter, rd)
                /\ counts' = read_block(counts, iter, rd)
                /\ cg' = [moved(cg, iter, rd, FALSE) EXCEPT
                            !.ops = Append(@, PutOp(key(iter), value(iter)))]
                /\ UNCHANGED <<cpc, xstatus>>
    /\ UNCHANGED <<compressor_ids, drain, hret, hg, regVars, ndebug, call>>
    /\ UNCHANGED <<cmd, blocks, opened, result, compacted>>
    /\ UNCHANGED <<ostatus, found>>
    /\ UNCHANGED notCmd

\* clone_db: the loop is left because the iterator is not valid:
\* return buffer.finish()
clone_finish(wok) ==
    /\ cpc = "clone_loop"
    /\ ~Valid(iter)
    /\ LET r == finish(Ctx("out"), wok) IN
        /\ SetCtx("out", r.c)
        /\ cpc' = IF r.c.aborted THEN "aborted" ELSE "clone_ret"
        /\ xstatus' = IF r.c.aborted THEN xstatus ELSE r.status
    /\ iter' = NoIter
    /\ UNCHANGED <<histVars, regVars, ndebug, call>>
    /\ UNCHANGED <<cmd, blocks, opened, result, compacted, cg>>
    /\ UNCHANGED <<ostatus, found>>
    /\ UNCHANGED notCmd

\* clone_db's buffer is destroyed; compress_decompress returns 1 if the
\* status is not ok, else calls CompactRange on the output and returns 0
copy_ret ==
    /\ cpc = "clone_ret"
    /\ destroy_bw
    /\ IF aborted'
       THEN cpc' = "aborted" /\ UNCHANGED <<result, opened, regVars, compacted>>
       ELSE IF xstatus # OK
       THEN return(1) /\ UNCHANGED compacted
       ELSE return(0) /\ compacted' = compacted \cup {"out"}
    /\ UNCHANGED <<histVars, bw, dbs, wlog, ndebug, call>>
    /\ UNCHANGED <<cmd, blocks, iter, xstatus, cg>>
    /\ UNCHANGED <<ostatus, found>>
    /\ UNCHANGED notCmd

\* clear_db: the db_buffered_write is constructed, NewIterator, SeekToFirst
clear_seek(rd) ==
    /\ cpc = "clear"
    /\ bw' = FreshBw(bw.max_size)
    /\ LET it == NewIterator(dbs.in) IN
        /\ can_read(it, rd)
        /\ iter' = SeekToFirst(it, rd)
        /\ counts' = read_block(counts, it, rd)
        /\ cg' = moved(cg, it, rd, FALSE)
    /\ cpc' = "clear_loop"
    /\ UNCHANGED <<compressor_ids, drain, hret, hg, regVars>>
    /\ UNCHANGED <<dbs, wlog, aborted, ndebug, call>>
    /\ UNCHANGED <<cmd, blocks, opened, xstatus, result, compacted>>
    /\ UNCHANGED <<ostatus, found>>
    /\ UNCHANGED notCmd

\* clear_db: one iteration: Delete of the key, return buffer.last_status if
\* it returned false, else Next
clear_step(wok, rd) ==
    /\ cpc = "clear_loop"
    /\ Valid(iter)
    /\ can_read(iter, rd)
    /\ LET r == Delete(Ctx("in"), key(iter), wok) IN
        /\ SetCtx("in", r.c)
        /\ IF r.c.aborted
           THEN /\ cpc' = "aborted"
                /\ UNCHANGED <<iter, xstatus, counts, cg>>
           ELSE IF ~r.ret
           THEN /\ cpc' = "clear_ret"
                /\ xstatus' = r.c.bw.last_status
                /\ iter' = NoIter
                /\ cg' = [cg EXCEPT !.ops = Append(@, DelOp(key(iter)))]
                /\ UNCHANGED counts
           ELSE /\ iter' = Next(iter, rd)
                /\ counts' = read_block(counts, iter, rd)
                /\ cg' = [moved(cg, iter, rd, FALSE) EXCEPT
                            !.ops = Append(@, DelOp(key(iter)))]
                /\ UNCHANGED <<cpc, xstatus>>
    /\ UNCHANGED <<compressor_ids, drain, hret, hg, regVars, ndebug, call>>
    /\ UNCHANGED <<cmd, blocks, opened, result, compacted>>
    /\ UNCHANGED <<ostatus, found>>
    /\ UNCHANGED notCmd

\* clear_db: the loop is left because the iterator is not valid:
\* return buffer.finish()
clear_finish(wok) ==
    /\ cpc = "clear_loop"
    /\ ~Valid(iter)
    /\ LET r == finish(Ctx("in"), wok) IN
        /\ SetCtx("in", r.c)
        /\ cpc' = IF r.c.aborted THEN "aborted" ELSE "clear_ret"
        /\ xstatus' = IF r.c.aborted THEN xstatus ELSE r.status
    /\ iter' = NoIter
    /\ UNCHANGED <<histVars, regVars, ndebug, call>>
    /\ UNCHANGED <<cmd, blocks, opened, result, compacted, cg>>
    /\ UNCHANGED <<ostatus, found>>
    /\ UNCHANGED notCmd

\* clear_db's buffer is destroyed; cmd_clear returns 1 if the status is not
\* ok, else 0
clear_ret ==
    /\ cpc = "clear_ret"
    /\ destroy_bw
    /\ IF aborted'
       THEN cpc' = "aborted" /\ UNCHANGED <<result, opened, regVars>>
       ELSE IF xstatus # OK THEN return(1) ELSE return(0)
    /\ UNCHANGED <<histVars, bw, dbs, wlog, ndebug, call>>
    /\ UNCHANGED <<cmd, blocks, iter, xstatus, compacted, cg>>
    /\ UNCHANGED <<ostatus, found>>
    /\ UNCHANGED notCmd

\* cmd_dump: NewIterator, SeekToFirst
dump_seek(rd) ==
    /\ cpc = "dump"
    /\ LET it == NewIterator(dbs.in) IN
        /\ can_read(it, rd)
        /\ iter' = SeekToFirst(it, rd)
        /\ counts' = read_block(counts, it, rd)
        /\ cg' = moved(cg, it, rd, FALSE)
    /\ cpc' = "dump_loop"
    /\ UNCHANGED <<compressor_ids, drain, hret, hg, regVars, bwVars>>
    /\ UNCHANGED <<cmd, blocks, opened, xstatus, result, compacted>>
    /\ UNCHANGED <<ostatus, found>>
    /\ UNCHANGED notCmd

\* cmd_dump: one iteration: the record is printed, Next
dump_next(rd) ==
    /\ cpc = "dump_loop"
    /\ Valid(iter)
    /\ can_read(iter, rd)
    /\ iter' = Next(iter, rd)
    /\ counts' = read_block(counts, iter, rd)
    /\ cg' = moved(cg, iter, rd, FALSE)
    /\ UNCHANGED <<compressor_ids, drain, hret, hg, regVars, bwVars>>
    /\ UNCHANGED <<cmd, cpc, blocks, opened, xstatus, result, compacted>>
    /\ UNCHANGED <<ostatus, found>>
    /\ UNCHANGED notCmd

\* cmd_dump: after the loop, 1 if iter->status() is not ok, else 0
dump_end ==
    /\ cpc = "dump_loop"
    /\ ~Valid(iter)
    /\ IF iter.status # OK THEN return(1) ELSE return(0)
    /\ iter' = NoIter
    /\ UNCHANGED <<histVars, bwVars>>
    /\ UNCHANGED <<cmd, blocks, xstatus, compacted, cg>>
    /\ UNCHANGED <<ostatus, found>>
    /\ UNCHANGED notCmd

NextCmd ==
    \/ cmd_start
    \/ \E ok \in BOOLEAN : cmd_open(ok)
    \/ \E ok \in BOOLEAN : copy_open_out(ok)
    \/ \E rd \in ReadOutcomes : sweep_seek(rd)
    \/ \E rd \in ReadOutcomes : sweep_next(rd)
    \/ sweep_end
    \/ list_ret
    \/ list_check
    \/ cmd_check
    \/ \E rd \in ReadOutcomes : clone_seek(rd)
    \/ \E wok \in BOOLEAN, rd \in ReadOutcomes : clone_step(wok, rd)
    \/ \E wok \in BOOLEAN : clone_finish(wok)
    \/ copy_ret
    \/ \E rd \in ReadOutcomes : clear_seek(rd)
    \/ \E wok \in BOOLEAN, rd \in ReadOutcomes : clear_step(wok, rd)
    \/ \E wok \in BOOLEAN : clear_finish(wok)
    \/ clear_ret
    \/ \E rd \in ReadOutcomes : dump_seek(rd)
    \/ \E rd \in ReadOutcomes : dump_next(rd)
    \/ dump_end

StartCmd ==
    InitCmd /\ InitReg /\ IdleHist /\ IdleCodec

SpecCmd == StartCmd /\ [][NextCmd]_vars

\* ---------------------------------- main.cpp: the compressor registry

\* a compression_type descriptor: the name and the id its codec reports;
\* compression_type() is the "no compression" placeholder with id 0
NameOf(i) ==
    IF i = 0 THEN "no compression"
    ELSE IF i = ZlibRawId THEN "zlib raw"
    ELSE IF i = ZlibId THEN "zlib"
    ELSE "codec"

Descriptor(i) == [name |-> NameOf(i), compression_id |-> i]

\* the registries the model runs make_compressors over: up to MaxCodecs
\* descriptors with different ids, in any order (the program's own list,
\* get_compressors, is one of them)
Registries ==
    {r \in UNION {[1..n -> {Descriptor(i) : i \in CIds}] : n \in 0..MaxCodecs} :
        \A a, b \in DOMAIN r : a # b => r[a] # r[b]}

\* A registry and the codec that is its default (SpecCodec): any registry
\* with a codec in it, and any of its codecs as the default
InitCodec ==
    /\ \E r \in Registries, d \in CIds \ {0} :
        /\ \E n \in DOMAIN r : r[n].compression_id = d
        /\ registry = [descriptors |-> r, default |-> d]
    /\ made = [called |-> FALSE, only_default |-> FALSE, codecs |-> <<>>]

\* make_compressors(only_default) is called on the registry
codec_make(only_default) ==
    /\ made' = [called |-> TRUE, only_default |-> only_default,
                codecs |-> make_compressors_from(registry.descriptors, only_default)]
    /\ UNCHANGED registry
    /\ UNCHANGED <<regVars, bwVars, histVars, cmdVars>>

NextCodec ==
    \E only_default \in BOOLEAN : codec_make(only_default)

StartCodec ==
    InitCodec /\ InitReg /\ IdleBw /\ IdleHist /\ IdleCmd

SpecCodec == StartCodec /\ [][NextCodec]_vars

\* ------------------------------------------------------------------ claims

\* the handles attached under logger l: constructed (inserted) and not yet
\* erased by their destructor
Attached(l) ==
    {h \in Handles : hstate[h] \in {"live", "destroying"} /\ hlogger[h] = l}

\* C1: no dispatch invokes the callback of a logger_entry whose destructor
\* has completed, and every pointer stored in block_logger_map.map refers to a
\* handle that is constructed and not yet destroyed (registered under its own
\* logger).
C1_NoUseAfterFree ==
    /\ ~uaf
    /\ \A l \in DOMAIN map : \A h \in map[l] :
        hstate[h] \in {"live", "destroying"} /\ hlogger[h] = l

\* a dispatch has invoked the callback of a handle whose destructor has
\* started and is waiting for the lock the dispatch holds
C1_Witness ==
    \E t \in Threads, h \in Handles :
        /\ pc[t] = "disp_unlock"
        /\ calls[t][h] # <<>>
        /\ hstate[h] = "destroying"

\* C2: a dispatch (id, L) that holds the registry lock has, when its loop is
\* over, invoked the callback of every handle attached under L exactly once
\* with id, and no callback of a handle attached under another logger.
C2_DispatchExactlyOnce ==
    \A t \in Threads : pc[t] = "disp_unlock" =>
        \A h \in Handles :
            calls[t][h] = IF h \in Attached(op[t].l) THEN <<op[t].id>> ELSE <<>>

\* a finished dispatch that called a handle of its logger while a handle of
\* another logger was attached
C2_Witness ==
    \E t \in Threads, h1, h2 \in Handles :
        /\ pc[t] = "disp_unlock"
        /\ h1 \in Attached(op[t].l)
        /\ hstate[h2] = "live" /\ hlogger[h2] # op[t].l
        /\ op[t].id # 0

\* what get_missing is to return for the dispatches d (id -> how many) and the
\* known ids: the ids dispatched at least once, without 0 and the known ones,
\* each with its count
MissingOf(d, known) ==
    [i \in {j \in DOMAIN d : d[j] > 0 /\ j # 0 /\ j \notin known} |-> d[i]]

\* the sweep of the specification's example: ids 0, 3, 3, 250 over the 256
\* counters
ExampleCounts == (0 :> 1 @@ 3 :> 2 @@ 250 :> 1) @@ [i \in 0..255 |-> 0]

\* C3: get_missing returns the drained histogram restricted to the ids that
\* are neither 0 nor known, counts unchanged: a get_missing that no dispatch
\* ran beside returns, for the dispatches not yet reported by an earlier
\* drain, exactly MissingOf them; and for dispatched ids 0, 3, 3, 250 with
\* known ids {3} it returns {250: 1} (a fact about the function alone,
\* evaluated on the 256 counters once, where the histogram is untouched).
C3_GetMissing ==
    /\ (drain.i = Idle /\ drain.mode = "missing" /\ hg.has_prev /\ ~hg.d_during)
            => hret = MissingOf(hg.last_pending, compressor_ids)
    /\ (hg.ndisp = 0 /\ drain.i = Idle /\ ~hg.has_prev)
            => get_missing(ExampleCounts, {3}).missing = (250 :> 1)

\* a get_missing has returned a non-empty mapping after id 0, a known id and
\* an unknown id were dispatched
C3_Witness ==
    /\ drain.i = Idle /\ drain.mode = "missing" /\ hg.has_prev /\ ~hg.d_during
    /\ hret # EmptyMap
    /\ hg.last_pending[0] > 0
    /\ \E i \in compressor_ids : hg.last_pending[i] > 0

\* C10: get_counts is reset-on-read: the second of two consecutive get_counts
\* calls, with no dispatch from the start of the first to the return of the
\* second, returns an empty mapping; and after a get_counts that no dispatch
\* ran beside (and none followed yet) every counter is zero.
C10_ResetOnRead ==
    /\ (drain.i = Idle /\ hg.second_quiet) => hret = EmptyMap
    /\ (drain.i = Idle /\ hg.has_prev /\ ~hg.d_during /\ ~hg.d_after)
            => counts = ZeroCounts

\* a second consecutive drain has returned, the first one having had
\* dispatches to report
C10_Witness ==
    /\ drain.i = Idle /\ hg.second_quiet /\ drain.mode = "counts"
    /\ hg.ndisp > 0
    /\ \A i \in CIds : hg.pending[i] = 0

\* C5: once a flush triggered by Put or Delete has failed, every later Put and
\* Delete on that db_buffered_write returns failure (false), also when the
\* append leaves the batch below the flush threshold.
C5_PutAfterFailureFails ==
    (call.name \in {"Put", "Delete"} /\ call.failed_before /\ ~aborted)
        => call.ret = FALSE

\* C6: after a flush has failed with error E, finish() returns E, and the
\* latched error is never overwritten by a later flush.
C6_FinishReturnsFirstError ==
    /\ (call.name = "finish" /\ call.failed_before /\ ~aborted)
            => call.status = wlog.first_fail
    /\ (wlog.first_fail # OK /\ ~aborted) => bw.last_status = wlog.first_fail

\* the ids the sweep reported that are neither 0 nor the id of a codec of
\* the configuration the command opened its database with
UnknownSwept == {id \in cg.swept : id # 0 /\ id \notin known_ids(config(cmd))}

\* the database clone_db / clear_db writes to
Destination == IF cmd.name = "copy" THEN "out" ELSE "in"

\* C4: in cmd_compact and cmd_clear, once the sweep has dispatched an id that
\* is not 0 and not a codec id of the opened configuration, CompactRange is
\* never called, clear_db is never entered and no batch is written, and the
\* command returns a non-zero result.
C4_UnknownIdStops ==
    (cmd.name \in {"compact", "clear"} /\ UnknownSwept # {})
        => /\ compacted = {}
           /\ wlog.nwrites = 0
           /\ cpc \notin {"clear", "clear_loop", "clear_ret"}
           /\ dbs = cg.dbs0
           /\ cpc = "done" => result \notin {0, NoResult}

C4_Witness ==
    /\ cmd.name \in {"compact", "clear"}
    /\ cpc = "done"
    /\ UnknownSwept # {}
    /\ result = 1
    /\ dbs.in # <<>>

\* C7: in clone_db and clear_db no db.Write is issued after a db.Write has
\* returned a non-ok status, the function returns that first error, and the
\* destination holds its initial records with exactly the entries of the
\* successfully written batches applied, in order.
C7_FirstWriteErrorStops ==
    cmd.name \in {"copy", "clear"}
        => /\ ~wlog.late_write
           /\ (wlog.first_fail # OK /\ cpc \in {"clone_ret", "clear_ret", "done"})
                => xstatus = wlog.first_fail
           /\ wlog.ndurable <= Len(cg.ops)
           /\ dbs[Destination] =
                Write(cg.dbs0[Destination], SubSeq(cg.ops, 1, wlog.ndurable))

C7_Witness ==
    /\ cmd.name \in {"copy", "clear"}
    /\ cpc = "done"
    /\ wlog.first_fail # OK
    /\ wlog.ndurable > 0
    /\ wlog.ndurable < Len(cg.ops)
    /\ result = 1

\* C8: whenever clone_db has returned an ok status and the destination was
\* empty at the start, iterating the destination yields exactly the records
\* of the source, in order, whatever the flush threshold.
C8_CloneCopiesAll ==
    (cmd.name = "copy" /\ cpc = "clone_ret" /\ xstatus = OK /\ cg.dbs0.out = <<>>)
        => Iterate(dbs.out) = Iterate(cg.dbs0.in)

\* C9: when an iterator of a sweep, clone or clear loop stopped on a read
\* error, clone_db returns a non-ok status and the command that ran the loop
\* returns a non-zero result.
C9_ReadErrorSurfaced ==
    /\ (cmd.name = "copy" /\ cpc = "clone_ret" /\ cg.read_error) => xstatus # OK
    /\ (cmd.name \in {"copy", "list", "compact", "clear"} /\ cpc = "done"
            /\ cg.read_error) => result # 0

\* what get_counts is to return for the dispatches d (id -> how many): the
\* ids dispatched at least once, each with its count
CountsOf(d) == [i \in {j \in DOMAIN d : d[j] > 0} |-> d[i]]

\* C11: a get_counts that no dispatch ran beside returns a mapping that holds
\* id i iff at least one dispatch with id i on the histogram's logger has
\* completed since the previous get_counts (or since construction), with the
\* number of those dispatches as its value.
C11_DrainExact ==
    (drain.i = Idle /\ drain.mode = "counts" /\ hg.has_prev /\ ~hg.d_during)
        => hret = CountsOf(hg.last_pending)

\* a get_counts has returned one id dispatched twice and another id, after an
\* earlier drain and with dispatches on both loggers
C11_Witness ==
    /\ drain.i = Idle /\ drain.mode = "counts" /\ hg.has_prev /\ ~hg.d_during
    /\ \E i, j \in DOMAIN hret : i # j /\ hret[i] >= 2

\* the ids of the descriptors of r that are not the placeholder, in order
NonSentinelIds(r) ==
    LET ids == [n \in DOMAIN r |-> r[n].compression_id]
        IsCodec(i) == i # 0
    IN SelectSeq(ids, IsCodec)

C13_HandleDestroyedBeforeDrain ==
    /\ cpc \in {"counts", "missing"}
            => /\ hstate[HistHandle] = "free"
               /\ HistHandle \notin callbacks(map, CmdLogger)
    /\ cpc \in {"clear", "clear_loop", "clear_ret"} => counts = ZeroCounts

\* C14: when open_db fails the command returns a non-zero result and nothing
\* else happens: no Write, no CompactRange, no iterator and no sweep, the
\* databases are as they were, and compress_decompress does not open the
\* destination after the source failed to open; find_compression_algo returns
\* an empty optional iff the open failed, so the assertion
\* result.has_value() == status.ok() never fails.
C14_OpenFailureNoEffect ==
    /\ cg.open_failed # {}
            => /\ cpc \in {"done", "list_check"}
               /\ cpc = "done" => result \notin {0, NoResult}
               /\ wlog.nwrites = 0
               /\ compacted = {}
               /\ dbs = cg.dbs0
               /\ cg.seeks = 0
               /\ "in" \in cg.open_failed => "out" \notin cg.ever_opened
    /\ found.returned => (found.has_value <=> ostatus = OK)
    /\ cmd.name = "list" => ~aborted

\* list-algos has returned 1 for a database with records that failed to
\* open, in a build with assertions
C14_Witness ==
    /\ cmd.name = "list"
    /\ cpc = "done"
    /\ cg.open_failed = {"in"}
    /\ result = 1
    /\ ~ndebug
    /\ dbs.in # <<>>

\* thread t is between acquiring and releasing the exclusive lock (attach or
\* detach) / the shared lock (dispatch)
InExclusiveSection(t) == pc[t] \in {"ctor_cs", "dtor_cs"}
InSharedSection(t) == pc[t] \in {"disp_cs", "disp_loop", "disp_unlock"}

\* C15: while a thread is inside the critical section of an attach or a
\* detach, no other thread is inside the critical section of an attach, a
\* detach or a dispatch (dispatches may be inside theirs together: the
\* witness).
C15_ReaderWriterLock ==
    \A t, u \in Threads :
        (t # u /\ InExclusiveSection(t))
            => ~InExclusiveSection(u) /\ ~InSharedSection(u)

\* two dispatches hold shared access at the same time, both inside the loop
\* over a non-empty set of callbacks
C15_Witness ==
    \E t, u \in Threads :
        /\ t # u
        /\ pc[t] = "disp_loop" /\ pc[u] = "disp_loop"
        /\ todo[t] # {} /\ todo[u] # {}

\* C16: when a Put or Delete of a db_buffered_write has returned, the
\* batch's approximate size is below max_size: an append that brought the
\* size to max_size or above made exactly one db.Write and left the batch
\* empty, an append that left it below made none.
C16_BelowMaxSizeAfterAppend ==
    (call.name \in {"Put", "Delete"} /\ ~aborted)
        => /\ ApproximateSize(bw.buffer) < bw.max_size
           /\ call.writes = IF call.reached THEN 1 ELSE 0
           /\ call.reached => buffer_empty(bw.buffer)

\* a Put that reached max_size with more than one entry in the batch has
\* returned
C16_Witness ==
    /\ call.name = "Put" /\ ~aborted
    /\ call.reached
    /\ call.n >= 2
    /\ wlog.nwrites = 1
    /\ wlog.ndurable >= 2

\* C17: on every return path of clone_db and clear_db (finish succeeded,
\* finish failed, early return after a Put or Delete returned false) the
\* batch is empty when the db_buffered_write is destroyed, so the assertion of
\* its destructor does not fail.
C17_BufferEmptyAtDestruction ==
    cpc \in {"clone_ret", "clear_ret"} => buffer_empty(bw.buffer)

\* clone_db or clear_db is returning an error after a write of a batch of
\* two or more entries failed
C17_Witness ==
    /\ cpc \in {"clone_ret", "clear_ret"}
    /\ xstatus # OK
    /\ Len(cg.ops) >= 2
    /\ wlog.nwrites = 1
    /\ ~ndebug

\* thread t takes a step of a dispatch
DispatchStep(t) ==
    /\ pc[t] \in {"disp_lock", "disp_cs", "disp_loop", "disp_unlock"}
    /\ pc'[t] # pc[t] \/ todo'[t] # todo[t]

\* C18: a dispatch for a logger with no attached callback (never attached,
\* or its entry present but empty) invokes no callback, and no step of any
\* dispatch changes block_logger_map.map: dispatch never inserts a key.
C18_DispatchWithoutCallbacks ==
    /\ [](\A t \in Threads :
            (pc[t] = "disp_unlock" /\ Attached(op[t].l) = {})
                => \A h \in Handles : calls[t][h] = <<>>)
    /\ [][(\E t \in Threads : DispatchStep(t)) => map' = map]_vars

\* two dispatches have run to their end, one for a logger whose entry is
\* present but empty, one for a logger that never had an entry
C18_Witness ==
    \E t, u \in Threads :
        /\ pc[t] = "disp_unlock" /\ pc[u] = "disp_unlock"
        /\ op[t].l \in DOMAIN map /\ map[op[t].l] = {}
        /\ op[u].l \notin DOMAIN map

\* the registrations: the pairs (logger, handle) held by block_logger_map.map
Registered == {lh \in Loggers \X Handles : lh[1] \in DOMAIN map /\ lh[2] \in map[lh[1]]}

\* C19: the destructor of a logger_entry removes that handle's registration
\* and no other: the handles under the same logger and under other loggers
\* stay registered; and the constructor adds its handle's registration and
\* leaves the others as they are.
C19_DetachRemovesExactlyOne ==
    [][\A t \in Threads :
        /\ (pc[t] = "dtor_cs" /\ pc'[t] # "dtor_cs")
                => /\ <<op[t].l, op[t].h>> \in Registered
                   /\ Registered' = Registered \ {<<op[t].l, op[t].h>>}
        /\ (pc[t] = "ctor_cs" /\ pc'[t] # "ctor_cs")
                => Registered' = Registered \cup {<<op[t].l, op[t].h>>}]_vars

\* a destructor holds the exclusive lock and is about to erase its handle,
\* which is registered under the same logger as another handle
C19_Witness ==
    \E t \in Threads :
        /\ pc[t] = "dtor_cs"
        /\ Cardinality(map[op[t].l]) >= 2

\* the Put entries of the records of database d, in iteration order
PutsOf(d) == [i \in 1..Cardinality(DOMAIN d) |-> PutOp(Iterate(d)[i][1], Iterate(d)[i][2])]

\* C20: in compress_decompress CompactRange is called on the destination
\* only after clone_db has returned an ok status, that is after every record
\* of the source has been put and the last flush has succeeded; when clone_db
\* has failed the command returns non-zero and has not compacted.
C20_CompactAfterCloneOk ==
    cmd.name = "copy"
        => /\ compacted # {}
                => /\ compacted = {"out"}
                   /\ xstatus = OK
                   /\ wlog.first_fail = OK
                   /\ cg.ops = PutsOf(cg.dbs0.in)
                   /\ wlog.ndurable = Len(cg.ops)
           /\ (cpc = "done" /\ xstatus # OK) => compacted = {} /\ result \notin {0, NoResult}

\* the Delete entries of the keys of database d, in iteration order
DeletesOf(d) == [i \in 1..Cardinality(DOMAIN d) |-> DelOp(Iterate(d)[i][1])]

\* C21: when clear_db has returned an ok status, the Delete entries made are
\* those of the records the iterator visited (the first records of the
\* database in iteration order), each once and in that order, all of them
\* written, and so the database holds no record, whatever the number of
\* records and the flush threshold.
C21_ClearDeletesEverything ==
    (cmd.name = "clear" /\ cpc = "clear_ret" /\ xstatus = OK)
        => /\ \E n \in 0..Cardinality(DOMAIN cg.dbs0.in) :
                cg.ops = SubSeq(DeletesOf(cg.dbs0.in), 1, n)
           /\ wlog.ndurable = Len(cg.ops)
           /\ dbs.in = <<>>

\* the value the drain in progress has already taken for id i and will report
Taken(i) == IF i \in DOMAIN drain.counts_set THEN drain.counts_set[i] ELSE 0

\* C22: in every interleaving of dispatches and drains on the live histogram,
\* for each id the dispatches made to it, less the values the drains have
\* reported, equal the counter's current value plus the value the drain in
\* progress has taken and not yet returned (none between drains): no increment
\* is lost and none is counted twice.
C22_NoIncrementLostOrDoubled ==
    \A i \in CIds : hg.pending[i] = counts[i] + Taken(i)

\* a drain in progress has taken a value for an id, and a dispatch made
\* since has incremented that id's counter again
C22_Witness ==
    /\ drain.i # Idle
    /\ \E i \in CIds : i < drain.i /\ Taken(i) > 0 /\ counts[i] > 0

\* C23: in clone_db and clear_db no step enters flush once last_status is not
\* ok: from such a state no Write is made and the assertion of flush does not
\* fail, whichever Write call failed and however many records remain.
C23_NoFlushAfterFailure ==
    [][(cmd.name \in {"copy", "clear"} /\ bw.last_status # OK)
            => (wlog'.nwrites = wlog.nwrites /\ ~aborted')]_vars

\* a debug build has returned from clone_db or clear_db after a failed Write
\* with records of the source still unvisited
C23_Witness ==
    /\ cmd.name \in {"copy", "clear"}
    /\ ~ndebug
    /\ cpc = "done"
    /\ bw.last_status # OK
    /\ Len(cg.ops) < Cardinality(DOMAIN cg.dbs0.in)
    /\ ~aborted

\* thread t holds the lock, exclusive or shared
Holding(t) == pc[t] \in {"ctor_cs", "dtor_cs", "disp_cs", "disp_loop", "disp_unlock"}

\* some thread inside an operation can take its next step
SomeoneCanStep ==
    \E t \in Threads :
        \/ Holding(t)
        \/ pc[t] \in {"ctor_lock", "dtor_lock"} /\ can_lock
        \/ pc[t] = "disp_lock" /\ can_lock_shared

\* C24 as stated: the registry is deadlock-free and, under fair scheduling,
\* every started attach, detach and dispatch eventually acquires the lock,
\* completes and releases it: no thread stays inside an operation for ever.
C24_EveryOperationCompletes ==
    /\ []((\E t \in Threads : pc[t] # "idle") => SomeoneCanStep)
    /\ \A t \in Threads : []<>(pc[t] = "idle")

\* C24, amended: the registry is deadlock-free (while an operation is under
\* way some thread inside one can step) and, under fair scheduling, every
\* thread that has acquired the lock completes and releases it: no thread
\* holds the lock for ever. A thread that waits for the lock is not promised
\* to get it.
C24_DeadlockFreeAndHoldersFinish ==
    /\ []((\E t \in Threads : pc[t] # "idle") => SomeoneCanStep)
    /\ \A t \in Threads : []<>(~Holding(t))

\* a thread waits for the exclusive lock while another is inside a dispatch
C24_Witness ==
    \E t, u \in Threads :
        /\ pc[t] \in {"ctor_lock", "dtor_lock"}
        /\ pc[u] = "disp_loop"
        /\ u \in mutex.readers

====
